---- MODULE Spec2Model ----
(***************************************************************************)
(* Model of plugins/modules/manage_hosts.py: the Ansible module that adds, *)
(* updates or removes a hostname/IP pair in the hosts file.                *)
(*                                                                         *)
(* A Python str is modelled as a sequence of one-character strings, so     *)
(* that readlines, split, strip, lower, the f-string and writelines are    *)
(* computed character by character as Python computes them.  The hosts     *)
(* file is its content (one str), not a list of lines.                     *)
(***************************************************************************)
EXTENDS Naturals, Sequences, FiniteSets

VARIABLES
    exists,      \* whether HOSTS_FILE exists on disk
    file,        \* content of HOSTS_FILE
    request,     \* module.params: hostname, ip, state
    result,      \* what the last run handed to exit_json / fail_json
    mode,        \* how the last run was made: "none", "check" or "real"
    prevFile,    \* content of HOSTS_FILE when the last run read it
    prevResult,  \* result of the run before the last one
    prevMode     \* mode of the run before the last one

vars == <<exists, file, request, result, mode, prevFile, prevResult, prevMode>>

\* Largest number of lines of an initial hosts file.
MaxLines == 3

----------------------------------------------------------------------------
(* Python str primitives *)

\* str.isspace for the characters of the model's alphabet
IsSpace(c) == c \in {" ", "\t", "\n"}

\* str.lower, one character
LowerChar(c) == CASE c = "A" -> "a" [] c = "B" -> "b" [] c = "C" -> "c" [] OTHER -> c

\* str.lower
lower(s) == [i \in 1..Len(s) |-> LowerChar(s[i])]

RECURSIVE lstrip(_)
lstrip(s) == IF s # <<>> /\ IsSpace(Head(s)) THEN lstrip(Tail(s)) ELSE s

RECURSIVE rstrip(_)
rstrip(s) ==
    IF s # <<>> /\ IsSpace(s[Len(s)]) THEN rstrip(SubSeq(s, 1, Len(s) - 1)) ELSE s

\* str.strip()
strip(s) == rstrip(lstrip(s))

RECURSIVE SplitLoop(_, _, _, _)
SplitLoop(s, i, cur, acc) ==
    IF i > Len(s)
    THEN IF cur = <<>> THEN acc ELSE Append(acc, cur)
    ELSE IF IsSpace(s[i])
         THEN SplitLoop(s, i + 1, <<>>, IF cur = <<>> THEN acc ELSE Append(acc, cur))
         ELSE SplitLoop(s, i + 1, Append(cur, s[i]), acc)

\* str.split(): the maximal runs of non-whitespace characters
split(s) == SplitLoop(s, 1, <<>>, <<>>)

RECURSIVE ReadLoop(_, _, _, _)
ReadLoop(s, i, cur, acc) ==
    IF i > Len(s)
    THEN IF cur = <<>> THEN acc ELSE Append(acc, cur)
    ELSE IF s[i] = "\n"
         THEN ReadLoop(s, i + 1, <<>>, Append(acc, Append(cur, s[i])))
         ELSE ReadLoop(s, i + 1, Append(cur, s[i]), acc)

\* file.readlines(): the lines of the content, each with its newline; the
\* last one has none when the content does not end with a newline
readlines(s) == ReadLoop(s, 1, <<>>, <<>>)

RECURSIVE writelines(_)
\* file.writelines(): the strings one after the other, nothing added
writelines(lines) ==
    IF lines = <<>> THEN <<>> ELSE Head(lines) \o writelines(Tail(lines))

\* f"{ip}\t{hostname}\n"
FormatLine(ip, hostname) == ip \o <<"\t">> \o hostname \o <<"\n">>

----------------------------------------------------------------------------
(* run_module *)

\* result = dict(changed=False, message="")
InitialResult == [failed |-> FALSE, changed |-> FALSE, message |-> "", msg |-> ""]

\* the locals of run_module before the loop
InitialLocals ==
    [updated_lines |-> <<>>,
     found_hostname |-> FALSE,
     matching_line_exists |-> FALSE,
     changed |-> FALSE,
     message |-> ""]

\* line_hostname.lower() == hostname.lower()
HostnameMatches(line_hostname, hostname) == lower(line_hostname) = lower(hostname)

\* the body of `for line in lines`
LoopBody(line, req, loc) ==
    LET parts == split(line) IN
    IF Len(parts) >= 2
    THEN LET line_ip == strip(parts[1])
             line_hostname == strip(parts[2])
         IN  IF HostnameMatches(line_hostname, req.hostname)
             THEN IF line_ip = req.ip
                  THEN [loc EXCEPT !.found_hostname = TRUE,
                                   !.matching_line_exists = TRUE,
                                   !.updated_lines = Append(@, line),
                                   !.changed = FALSE,
                                   !.message = "IP / Hostname pair exist. No changes made."]
                  ELSE IF req.state = "present"
                       THEN [loc EXCEPT !.found_hostname = TRUE,
                                        !.updated_lines =
                                            Append(@, FormatLine(req.ip, req.hostname)),
                                        !.changed = TRUE,
                                        !.message = "IP updated for hostname."]
                       ELSE [loc EXCEPT !.found_hostname = TRUE]
             ELSE [loc EXCEPT !.updated_lines = Append(@, line)]
    ELSE loc  \* the else of line 116 belongs to the inner if: nothing is appended

RECURSIVE ForLines(_, _, _, _)
\* for line in lines
ForLines(lines, i, req, loc) ==
    IF i > Len(lines) THEN loc
    ELSE ForLines(lines, i + 1, req, LoopBody(lines[i], req, loc))

\* AddIfMissing with changed and message set inside `if not module.check_mode`
AddIfMissingOnlyWhenWriting(loc, req, check_mode) ==
    IF req.state = "present" /\ ~loc.found_hostname /\ ~check_mode
    THEN [loc EXCEPT !.updated_lines = Append(@, FormatLine(req.ip, req.hostname)),
                     !.changed = TRUE,
                     !.message = "Hostname added with IP."]
    ELSE loc

\* if state == "present" and not found_hostname
AddIfMissing(loc, req, check_mode) ==
    IF req.state = "present" /\ ~loc.found_hostname
    THEN [loc EXCEPT !.updated_lines =
                         IF ~check_mode
                         THEN Append(@, FormatLine(req.ip, req.hostname))
                         ELSE @,
                     !.changed = TRUE,
                     !.message = "Hostname added with IP."]
    ELSE loc

\* LineIsRemoved comparing the hostnames without .lower()
LineIsRemovedCaseSensitive(line, hostname) ==
    /\ Len(split(line)) >= 2
    /\ strip(split(line)[2]) = hostname

\* the condition of the list comprehension, negated: the line is removed
LineIsRemoved(line, hostname) ==
    /\ Len(split(line)) >= 2
    /\ lower(strip(split(line)[2])) = lower(hostname)

\* if state == "absent" and found_hostname / elif state == "absent" and not found_hostname
RemoveIfFound(loc, req) ==
    IF req.state = "absent" /\ loc.found_hostname
    THEN [loc EXCEPT !.updated_lines =
                         SelectSeq(@, LAMBDA line : ~LineIsRemoved(line, req.hostname)),
                     !.changed = TRUE,
                     !.message = "Hostname removed."]
    ELSE IF req.state = "absent" /\ ~loc.found_hostname
         THEN [loc EXCEPT !.message = "Hostname does not exist. No changes made."]
         ELSE loc

\* the whole of run_module: the content of the file afterwards and the result
run_module(ex, content, req, check_mode) ==
    IF ~ex
    THEN \* open() raises FileNotFoundError
         [file |-> content,
          result |-> [failed |-> TRUE, changed |-> FALSE, message |-> "",
                      msg |-> "The specified path does not exist."]]
    ELSE LET lines == readlines(content)
             loc1 == ForLines(lines, 1, req, InitialLocals)
             loc2 == AddIfMissing(loc1, req, check_mode)
             loc3 == RemoveIfFound(loc2, req)
         IN  [file |-> IF ~check_mode THEN writelines(loc3.updated_lines) ELSE content,
              result |-> [failed |-> FALSE, changed |-> loc3.changed,
                          message |-> loc3.message, msg |-> ""]]

----------------------------------------------------------------------------
(* Inputs *)

\* lines a hosts file is made of: blank, a one-token comment mark, entries
\* separated by a space or a tab, an entry in upper case, an entry with an alias
LinePool ==
    { <<"\n">>,
      <<"#", "\n">>,
      <<"1", " ", "a", "\n">>,
      <<"2", " ", "a", "\n">>,
      <<"1", "\t", "A", "\n">>,
      <<"2", " ", "b", "\n">>,
      <<"1", " ", "b", " ", "a", "\n">> }

LineSeqs == UNION { [1..n -> LinePool] : n \in 0..MaxLines }

\* a file of the given lines; without final_newline its last line is not terminated
Content(ls, final_newline) ==
    LET c == writelines(ls) IN
    IF final_newline \/ c = <<>> THEN c ELSE SubSeq(c, 1, Len(c) - 1)

Files == { Content(ls, nl) : ls \in LineSeqs, nl \in BOOLEAN }

\* hostnames in either case, of several lines, of an alias only, of no line
Hostnames == { <<"a">>, <<"A">>, <<"b">>, <<"c">> }
Ips == { <<"1">>, <<"2">> }
States == { "present", "absent" }

Requests == [hostname : Hostnames, ip : Ips, state : States]

----------------------------------------------------------------------------
(* State machine: the orchestration host runs the module again and again   *)
(* with the same parameters, in check mode or not.                         *)

Init ==
    /\ exists \in BOOLEAN
    /\ file \in (IF exists THEN Files ELSE {<<>>})
    /\ request \in Requests
    /\ result = InitialResult
    /\ mode = "none"
    /\ prevFile = file
    /\ prevResult = InitialResult
    /\ prevMode = "none"

Run(check_mode) ==
    LET out == run_module(exists, file, request, check_mode) IN
    /\ file' = out.file
    /\ result' = out.result
    /\ mode' = IF check_mode THEN "check" ELSE "real"
    /\ prevFile' = file
    /\ prevResult' = result
    /\ prevMode' = mode
    /\ UNCHANGED <<exists, request>>

\* module.check_mode is False
RunModule == Run(FALSE)

\* module.check_mode is True
RunModuleCheckMode == Run(TRUE)

Next == RunModule \/ RunModuleCheckMode

Spec == Init /\ [][Next]_vars

----------------------------------------------------------------------------
(* Vocabulary of the properties *)

\* the lines the last run read, and the lines of the file as it is now
LinesRead == readlines(prevFile)
LinesNow == readlines(file)

\* the last run was made without check mode and reached exit_json
RealRunDone == mode = "real" /\ ~result.failed

\* the line has fewer than two whitespace-separated tokens
IsShort(line) == Len(split(line)) < 2

\* the second token of the line is the request hostname, case-insensitively
MatchesRequest(line) ==
    /\ Len(split(line)) >= 2
    /\ lower(split(line)[2]) = lower(request.hostname)

\* the line has two tokens or more and belongs to another hostname
IsOther(line) == ~IsShort(line) /\ ~MatchesRequest(line)

\* the first token of the line is the request ip, exactly
HasRequestIp(line) == Len(split(line)) >= 1 /\ split(line)[1] = request.ip

SomeLineReadMatches == \E i \in 1..Len(LinesRead) : MatchesRequest(LinesRead[i])

NewLine == FormatLine(request.ip, request.hostname)

RECURSIVE IsSubseq(_, _)
\* a is b with some elements left out
IsSubseq(a, b) ==
    IF a = <<>> THEN TRUE
    ELSE IF b = <<>> THEN FALSE
    ELSE IF Head(a) = Head(b) THEN IsSubseq(Tail(a), Tail(b))
    ELSE IsSubseq(a, Tail(b))

----------------------------------------------------------------------------
(* Properties *)

\* C1: after a run without check mode with state=present and a hostname that
\* is the second token of no line read, the file ends with the line
\* ip<TAB>hostname<NEWLINE>, every other line of the file is a line that was
\* read, and the result is changed=true, "Hostname added with IP.".
C1_AddedAtEnd ==
    (RealRunDone /\ request.state = "present" /\ ~SomeLineReadMatches)
    => /\ LinesNow # <<>>
       /\ LinesNow[Len(LinesNow)] = NewLine
       /\ IsSubseq(SubSeq(LinesNow, 1, Len(LinesNow) - 1), LinesRead)
       /\ result.changed
       /\ result.message = "Hostname added with IP."

\* C2: after a run without check mode with state=present, every line read
\* whose hostname matches and whose ip differs from the request ip is, at the
\* same position of the file, the line ip<TAB>hostname<NEWLINE>, and the
\* result is changed=true.
C2_ReplacedInPlace ==
    (RealRunDone /\ request.state = "present")
    => \A i \in 1..Len(LinesRead) :
          (MatchesRequest(LinesRead[i]) /\ ~HasRequestIp(LinesRead[i]))
          => /\ i <= Len(LinesNow)
             /\ LinesNow[i] = NewLine
             /\ result.changed

\* C3: after a run without check mode with state=absent on a file with a line
\* whose hostname matches, no line of the file matches the hostname and the
\* result is changed=true, "Hostname removed.".
C3_AbsentRemovesAll ==
    (RealRunDone /\ request.state = "absent" /\ SomeLineReadMatches)
    => /\ \A i \in 1..Len(LinesNow) : ~MatchesRequest(LinesNow[i])
       /\ result.changed
       /\ result.message = "Hostname removed."

\* C3 happens: a matching line with the request ip and one with another ip
\* were both removed, and a line of another hostname is left.
C3_Witness ==
    /\ RealRunDone /\ request.state = "absent"
    /\ \E i, j \in 1..Len(LinesRead) :
          /\ MatchesRequest(LinesRead[i]) /\ HasRequestIp(LinesRead[i])
          /\ MatchesRequest(LinesRead[j]) /\ ~HasRequestIp(LinesRead[j])
    /\ LinesNow # <<>>
    /\ result.changed

\* C4: after a run without check mode with state=present on a file with a
\* line whose hostname matches and whose ip is the request ip, the file is
\* what it was and the result is changed=false.
C4_ExactMatchNoChange ==
    (RealRunDone /\ request.state = "present"
       /\ \E i \in 1..Len(LinesRead) :
             MatchesRequest(LinesRead[i]) /\ HasRequestIp(LinesRead[i]))
    => file = prevFile /\ ~result.changed

\* C5: after a run with state=absent on a file no line of which matches the
\* hostname, the file is what it was, line for line, and the result is
\* changed=false, "Hostname does not exist. No changes made.".
C5_AbsentMissingNoChange ==
    (mode # "none" /\ ~result.failed /\ request.state = "absent"
       /\ ~SomeLineReadMatches)
    => /\ LinesNow = LinesRead
       /\ ~result.changed
       /\ result.message = "Hostname does not exist. No changes made."

\* C6: after two runs in a row without check mode with state=present, the
\* file is what the first run left and the second run returns changed=false.
C6_PresentIdempotent ==
    (RealRunDone /\ prevMode = "real" /\ request.state = "present")
    => file = prevFile /\ ~result.changed

\* C7: after a run without check mode, changed is true exactly when the
\* lines of the file differ from the lines read.
C7_ChangedIffModified ==
    RealRunDone => (result.changed <=> LinesNow # LinesRead)

\* C8: after a run without check mode, the lines read that have fewer than
\* two tokens are all in the file, unmodified and in their order.
C8_ShortLinesKept ==
    RealRunDone => IsSubseq(SelectSeq(LinesRead, IsShort), LinesNow)

\* C9: after a run without check mode, the lines of the file with two tokens
\* or more that belong to another hostname are those that were read: none
\* dropped, modified, duplicated or reordered.
C9_OtherLinesKept ==
    RealRunDone => SelectSeq(LinesNow, IsOther) = SelectSeq(LinesRead, IsOther)

\* C10: a run in check mode leaves the file as it was, and a run without
\* check mode made right after it, on the same content with the same request,
\* returns the changed and message that the check-mode run returned.
C10_CheckModePreview ==
    /\ (mode = "check" => file = prevFile)
    /\ (mode = "real" /\ prevMode = "check" /\ ~result.failed)
       => /\ result.changed = prevResult.changed
          /\ result.message = prevResult.message

\* C10 happens: check mode announced the added hostname, and the run without
\* check mode then added it and returned the same.
C10_Witness ==
    /\ mode = "real" /\ prevMode = "check" /\ ~result.failed
    /\ request.state = "present"
    /\ file # prevFile
    /\ result.changed /\ prevResult.changed
    /\ prevResult.message = "Hostname added with IP."

====
